---- MODULE Spec2Model ----
(***************************************************************************)
(* GTFS feed analysis of FrequentTransitNetworks.                          *)
(*                                                                         *)
(*   v2 = src/Web-App/backend/Web-App/backend/main.py                      *)
(*        validate_gtfs_zip, load_feed_metadata, parse_gtfs_zip,           *)
(*        compare_gtfs_task and its in-memory cache                        *)
(*   v1 = src/Web-App/backend/main.py                                      *)
(*        process_gtfs                                                     *)
(*                                                                         *)
(* A feed is the content of one uploaded archive.  Time-of-day strings     *)
(* "HH:MM:SS" are triples <<h, m, s>>, a missing cell (NaN) is <<>>, a     *)
(* timedelta is a number of seconds, a date is <<year, month, day>>.       *)
(* Headways are kept as seconds; the code's minutes are seconds / 60, so   *)
(* "h <= 10" is written h <= 10 * 60, exactly, with no rounding.           *)
(***************************************************************************)
EXTENDS Integers, Sequences, FiniteSets, TLC

VARIABLES
    feed,       \* the archive handed to the analysis
    today,      \* datetime.date.today()
    pc,         \* "start" before the call, "done" once it returned or raised
    impl,       \* which analysis ran: "parse_gtfs_zip" or "process_gtfs"
    tmpdirs,    \* scratch directories (mkdtemp) that exist on the filesystem
    run,        \* what the last analysis call left: outcome and its locals
    now,        \* datetime.datetime.now(), in ticks of 1/TicksPerDay day
    advances,   \* number of clock advances so far
    cache,      \* the module-level cache: content |-> entry or NoEntry
    log         \* what the last compare_gtfs_task run did, file by file

vars == <<feed, today, pc, impl, tmpdirs, run, now, advances, cache, log>>

---------------------------------------------------------------------------
(* Bounds of the model. *)

\* longest stop_times relation enumerated
MaxEvents == 3
\* longest trips relation enumerated (shape resolution)
MaxTrips == 2
\* clock advances in a cache run
MaxAdvances == 2
\* scratch directories that may pile up before the model stops
MaxTmpDirs == 2
\* largest gap, in half minutes, between the two events of a two-event feed
MaxGap == 124

---------------------------------------------------------------------------
(* Program constants. *)

CACHE_MAX_AGE_DAYS == 30

REQUIRED_GTFS_FILES ==
    {"routes.txt", "trips.txt", "stop_times.txt", "calendar.txt", "shapes.txt"}

REQUIRED_FILES ==
    {"routes.txt", "trips.txt", "stop_times.txt", "calendar.txt", "shapes.txt"}

\* total_seconds() / 60
SecondsPerMinute == 60

\* clock ticks in a day
TicksPerDay == 2

\* by how much the clock moves between task runs: exactly the maximum age,
\* half a day more, a full day more
ClockSteps ==
    {CACHE_MAX_AGE_DAYS * TicksPerDay, CACHE_MAX_AGE_DAYS * TicksPerDay + 1,
     (CACHE_MAX_AGE_DAYS + 1) * TicksPerDay}

\* A cell of a table is <<>> when it is missing (NaN) and <<v>>, or the
\* triple of a time of day, when it holds a value.
NaN == <<>>

notna(v) == v # NaN

---------------------------------------------------------------------------
(* Small helpers over sequences. *)

Range(s) == {s[i] : i \in DOMAIN s}

RECURSIVE SeqsUpTo(_, _)
SeqsUpTo(S, n) ==
    IF n = 0 THEN {<<>>}
    ELSE LET shorter == SeqsUpTo(S, n - 1)
         IN  shorter \cup {Append(q, x) : q \in {r \in shorter : Len(r) = n - 1}, x \in S}

Injective(s) == \A i, j \in DOMAIN s : s[i] = s[j] => i = j

RECURSIVE SumFn(_)
SumFn(f) ==
    IF DOMAIN f = {} THEN 0
    ELSE LET k == CHOOSE x \in DOMAIN f : TRUE
         IN  f[k] + SumFn([x \in DOMAIN f \ {k} |-> f[x]])

---------------------------------------------------------------------------
(* Python str ordering: code points, left to right; a proper prefix is     *)
(* smaller.  sorted(missing) orders the file names with it.                *)

Chars(name) ==
    CASE name = "routes.txt"     -> <<114, 111, 117, 116, 101, 115, 46, 116, 120, 116>>
      [] name = "trips.txt"      -> <<116, 114, 105, 112, 115, 46, 116, 120, 116>>
      [] name = "stop_times.txt" -> <<115, 116, 111, 112, 95, 116, 105, 109, 101, 115, 46, 116, 120, 116>>
      [] name = "calendar.txt"   -> <<99, 97, 108, 101, 110, 100, 97, 114, 46, 116, 120, 116>>
      [] name = "shapes.txt"     -> <<115, 104, 97, 112, 101, 115, 46, 116, 120, 116>>
      [] name = "feed_info.txt"  -> <<102, 101, 101, 100, 95, 105, 110, 102, 111, 46, 116, 120, 116>>

RECURSIVE LexLess(_, _)
LexLess(a, b) ==
    IF b = <<>> THEN FALSE
    ELSE IF a = <<>> THEN TRUE
    ELSE IF a[1] # b[1] THEN a[1] < b[1]
    ELSE LexLess(Tail(a), Tail(b))

StrLess(x, y) == LexLess(Chars(x), Chars(y))

\* sorted(set of str): the least element first
RECURSIVE Sorted(_)
Sorted(S) ==
    IF S = {} THEN <<>>
    ELSE LET least == CHOOSE x \in S : \A y \in S \ {x} : StrLess(x, y)
         IN  <<least>> \o Sorted(S \ {least})

\* every order in which a set can be iterated
Orderings(S) == {q \in SeqsUpTo(S, Cardinality(S)) : Len(q) = Cardinality(S) /\ Injective(q)}

---------------------------------------------------------------------------
(* Dates: strptime(str(int(v)), '%Y%m%d').date(), and date comparison.     *)

IsLeap(y) == (y % 4 = 0 /\ y % 100 # 0) \/ y % 400 = 0

DaysInMonth(y, m) ==
    IF m = 2 THEN (IF IsLeap(y) THEN 29 ELSE 28)
    ELSE IF m \in {4, 6, 9, 11} THEN 30 ELSE 31

Ymd(v) == <<v \div 10000, (v \div 100) % 100, v % 100>>

\* strptime raises ValueError on a month or day that does not exist
ValidYmd(v) ==
    LET d == Ymd(v)
    IN  /\ d[1] >= 1 /\ d[1] <= 9999
        /\ d[2] >= 1 /\ d[2] <= 12
        /\ d[3] >= 1 /\ d[3] <= DaysInMonth(d[1], d[2])

DateLess(a, b) ==
    \/ a[1] < b[1]
    \/ a[1] = b[1] /\ a[2] < b[2]
    \/ a[1] = b[1] /\ a[2] = b[2] /\ a[3] < b[3]

\* the first day of the month after that of d
NextMonth(d) == IF d[2] < 12 THEN <<d[1], d[2] + 1, 1>> ELSE <<d[1] + 1, 1, 1>>

\* d + timedelta(days=n): month by month
RECURSIVE AddDays(_, _)
AddDays(d, n) ==
    IF d[3] + n <= DaysInMonth(d[1], d[2]) THEN <<d[1], d[2], d[3] + n>>
    ELSE AddDays(NextMonth(d), n - (DaysInMonth(d[1], d[2]) - d[3] + 1))

---------------------------------------------------------------------------
(* load_feed_metadata *)

EmptyDict == <<>>

Put(f, k, v) == [x \in DOMAIN f \cup {k} |-> IF x = k THEN v ELSE f[x]]

Get(f, k, default) == IF k \in DOMAIN f THEN f[k] ELSE default

\* One date column of the loop: the dictionary after it and whether
\* int()/strptime raised.
LoadDate(metadata, key, v) ==
    IF ~notna(v) THEN [metadata |-> metadata, raised |-> FALSE]
    ELSE IF ~ValidYmd(v[1]) THEN [metadata |-> metadata, raised |-> TRUE]
    ELSE [metadata |-> Put(metadata, key, Ymd(v[1])), raised |-> FALSE]

load_feed_metadata(fd) ==
    LET fi == fd.feed_info
    IN  IF "feed_info.txt" \notin fd.names THEN EmptyDict
        ELSE IF ~fi.parses THEN EmptyDict
        ELSE LET base == [k \in {"feed_publisher_name", "feed_publisher_url", "feed_version"}
                            |-> fi.publisher]
                 s == LoadDate(base, "feed_start_date", fi.start)
             IN  IF s.raised THEN s.metadata
                 ELSE LoadDate(s.metadata, "feed_end_date", fi.end).metadata

\* end_date and date.fromisoformat(end_date) < date.today()
\* (Expired_notStrict: the fault of rejecting a feed that ends today)
Expired_notStrict(metadata, day) ==
    /\ "feed_end_date" \in DOMAIN metadata
    /\ ~DateLess(day, metadata["feed_end_date"])

Expired(metadata, day) ==
    /\ "feed_end_date" \in DOMAIN metadata
    /\ DateLess(metadata["feed_end_date"], day)

---------------------------------------------------------------------------
(* The tables.  routes: a sequence of route_id; trips: rows [trip_id,      *)
(* route_id, service_id, shape_id]; stop_times: rows [trip_id,             *)
(* arrival_time]; calendar: rows [service_id, monday .. friday];           *)
(* shapes: rows [shape_id, shape_pt_sequence, shape_pt_lat, shape_pt_lon]. *)

\* pd.to_timedelta("HH:MM:SS"), in seconds
to_timedelta(t) == t[1] * 3600 + t[2] * 60 + t[3]

\* .fillna('00:00:00')
fillna(t) == IF notna(t) THEN t ELSE <<0, 0, 0>>

\* calendar[(monday==1)&(tuesday==1)&(wednesday==1)&(thursday==1)&(friday==1)]['service_id']
WeekdayServices(calendar) ==
    {calendar[i].service_id : i \in {j \in DOMAIN calendar :
        /\ calendar[j].monday = 1
        /\ calendar[j].tuesday = 1
        /\ calendar[j].wednesday = 1
        /\ calendar[j].thursday = 1
        /\ calendar[j].friday = 1}}

\* trips[trips.service_id.isin(svc)]
FilterTrips(trips, svc) == SelectSeq(trips, LAMBDA t : t.service_id \in svc)

\* stop_times[stop_times.trip_id.isin(trips.trip_id)]
FilterStopTimes(stop_times, trips) ==
    SelectSeq(stop_times, LAMBDA e : e.trip_id \in {trips[i].trip_id : i \in DOMAIN trips})

\* trips.merge(stop_times, on='trip_id'): an inner join in the order of trips
RECURSIVE Merge(_, _)
Merge(trips, stop_times) ==
    IF trips = <<>> THEN <<>>
    ELSE LET t == Head(trips)
             mine == SelectSeq(stop_times, LAMBDA e : e.trip_id = t.trip_id)
         IN  [i \in DOMAIN mine |->
                [route_id |-> t.route_id, arrival_time |-> mine[i].arrival_time]]
             \o Merge(Tail(trips), stop_times)

\* merged['arrival_time'] = pd.to_timedelta(merged['arrival_time'].fillna('00:00:00'))
ParseTimes(merged) ==
    [i \in DOMAIN merged |->
        [route_id |-> merged[i].route_id,
         arrival_time |-> to_timedelta(fillna(merged[i].arrival_time))]]

\* (arrival_time >= 07:00:00) & (arrival_time <= 22:00:00)
\* (InWindow_exclusive: the fault of strict comparisons)
InWindow_exclusive(td) ==
    td > to_timedelta(<<7, 0, 0>>) /\ td < to_timedelta(<<22, 0, 0>>)

InWindow(td) ==
    td >= to_timedelta(<<7, 0, 0>>) /\ td <= to_timedelta(<<22, 0, 0>>)

FilterWindow(merged) == SelectSeq(merged, LAMBDA r : InWindow(r.arrival_time))

\* Series.sort_values(): ascending
RECURSIVE Insert(_, _)
Insert(x, s) ==
    IF s = <<>> THEN <<x>>
    ELSE IF x <= Head(s) THEN <<x>> \o s
    ELSE <<Head(s)>> \o Insert(x, Tail(s))

RECURSIVE sort_values(_)
sort_values(s) == IF s = <<>> THEN <<>> ELSE Insert(Head(s), sort_values(Tail(s)))

\* Series.diff().dropna(): the differences of neighbours
diff(s) == [i \in 1 .. (Len(s) - 1) |-> s[i + 1] - s[i]]

RECURSIVE max(_)
max(s) == IF Len(s) = 1 THEN s[1]
          ELSE LET m == max(Tail(s)) IN IF s[1] >= m THEN s[1] ELSE m

\* the group of one route_id in merged.groupby('route_id')
Group(merged, rid) ==
    LET rows == SelectSeq(merged, LAMBDA r : r.route_id = rid)
    IN  [i \in DOMAIN rows |-> rows[i].arrival_time]

\* mins.diff().dropna().max() of one group, in seconds
GroupHeadway(grp) == max(diff(sort_values(grp)))

\* the headways dictionary: only groups of two rows or more get an entry
ComputeHeadways(merged) ==
    LET rids == {merged[i].route_id : i \in DOMAIN merged}
        kept == {rid \in rids : ~(Len(Group(merged, rid)) < 2)}
    IN  [rid \in kept |-> GroupHeadway(Group(merged, rid))]

\* the if/elif chain; h in seconds, the thresholds in minutes
\* (Bucketize_exclusive: the fault of exclusive upper bounds)
Bucketize_exclusive(h) ==
    IF h < 10 * SecondsPerMinute THEN "10"
    ELSE IF h < 15 * SecondsPerMinute THEN "15"
    ELSE IF h < 20 * SecondsPerMinute THEN "20"
    ELSE IF h < 30 * SecondsPerMinute THEN "30"
    ELSE IF h < 60 * SecondsPerMinute THEN "60"
    ELSE "worse"

Bucketize(h) ==
    IF h <= 10 * SecondsPerMinute THEN "10"
    ELSE IF h <= 15 * SecondsPerMinute THEN "15"
    ELSE IF h <= 20 * SecondsPerMinute THEN "20"
    ELSE IF h <= 30 * SecondsPerMinute THEN "30"
    ELSE IF h <= 60 * SecondsPerMinute THEN "60"
    ELSE "worse"

ComputeBuckets(headways) == [rid \in DOMAIN headways |-> Bucketize(headways[rid])]

\* buckets.get(rid, 'unknown')
\* (BucketOf_worseByDefault: the fault of defaulting to the worst bucket)
BucketOf_worseByDefault(buckets, rid) == Get(buckets, rid, "worse")

BucketOf(buckets, rid) == Get(buckets, rid, "unknown")

\* trips[trips.route_id==rid].shape_id.dropna().unique(): in order of appearance
RECURSIVE unique(_)
unique(s) ==
    IF s = <<>> THEN <<>>
    ELSE LET init == unique(SubSeq(s, 1, Len(s) - 1))
             last == s[Len(s)]
         IN  IF last \in Range(init) THEN init ELSE Append(init, last)

\* (ShapeIds_keepNull: the fault of leaving out dropna)
ShapeIds_keepNull(trips, rid) ==
    LET mine == SelectSeq(trips, LAMBDA t : t.route_id = rid)
    IN  unique([i \in DOMAIN mine |-> mine[i].shape_id])

ShapeIds(trips, rid) ==
    LET mine == SelectSeq(trips, LAMBDA t : t.route_id = rid)
        refs == SelectSeq([i \in DOMAIN mine |-> mine[i].shape_id], notna)
    IN  unique(refs)

\* DataFrame.sort_values('shape_pt_sequence')
RECURSIVE InsertPt(_, _)
InsertPt(p, s) ==
    IF s = <<>> THEN <<p>>
    ELSE IF p.shape_pt_sequence <= Head(s).shape_pt_sequence THEN <<p>> \o s
    ELSE <<Head(s)>> \o InsertPt(p, Tail(s))

RECURSIVE SortPts(_)
SortPts(s) == IF s = <<>> THEN <<>> ELSE InsertPt(Head(s), SortPts(Tail(s)))

\* shapes[shapes.shape_id==sid].sort_values(...)[['shape_pt_lat','shape_pt_lon']].values.tolist()
Coords(shapes, sid) ==
    LET pts == SortPts(SelectSeq(shapes, LAMBDA p : <<p.shape_id>> = sid))
    IN  [i \in DOMAIN pts |-> <<pts[i].shape_pt_lat, pts[i].shape_pt_lon>>]

\* freq_counts[b] += 1 on a defaultdict(int)
\* (Incr_assign: the fault of writing "= 1")
Incr_assign(counts, b) == Put(counts, b, 1)

Incr(counts, b) == Put(counts, b, Get(counts, b, 0) + 1)

\* the loop "for _, r in routes.iterrows()": the counts and records after
\* the first n rows; trips is the relation the loop reads
RECURSIVE RouteLoop(_, _, _, _, _)
RouteLoop(routes, trips, shapes, buckets, n) ==
    IF n = 0 THEN [freq_counts |-> EmptyDict, route_shapes |-> <<>>]
    ELSE LET before == RouteLoop(routes, trips, shapes, buckets, n - 1)
             rid == routes[n]
             b == BucketOf(buckets, rid)
             sids == ShapeIds(trips, rid)
         IN  [freq_counts |-> Incr(before.freq_counts, b),
              route_shapes |->
                 IF Len(sids) > 0
                 THEN Append(before.route_shapes,
                             [route_id |-> rid, frequency_bucket |-> b,
                              shape |-> Coords(shapes, sids[1])])
                 ELSE before.route_shapes]

---------------------------------------------------------------------------
(* The analysis.  A run record is what one call leaves behind:             *)
(*   outcome      "ok" when the call returned, else the error it raised    *)
(*   missing      the file names listed in a MissingRequiredFiles message  *)
(*   scratch      "none": mkdtemp was not reached, "left": the directory   *)
(*                still exists when the call ends, "removed": it was       *)
(*                deleted                                                  *)
(*   metadata     the loaded feed metadata (empty when not loaded)         *)
(*   headways, buckets   the locals of the same names                      *)
(*   frequencies, routes the returned freq_counts and route_shapes         *)

NoRun ==
    [outcome |-> "none", missing |-> <<>>, scratch |-> "none", metadata |-> EmptyDict,
     headways |-> EmptyDict, buckets |-> EmptyDict,
     frequencies |-> EmptyDict, routes |-> <<>>]

\* the record of a compare_gtfs_task run: the time it ran at, the cache it
\* found, what it did with each file, and whether it raised
NoLog == [at |-> 0, before |-> EmptyDict, steps |-> <<>>, raised |-> FALSE]

Raised(error, scratch, metadata) ==
    [NoRun EXCEPT !.outcome = error, !.scratch = scratch, !.metadata = metadata]

\* the relation the shape lookup reads: "trips" was rebound to the
\* weekday trips before the loop
\* (ShapeTrips_full: a lookup in the relation as it was read)
ShapeTrips_full(all_trips, weekday_trips) == all_trips

ShapeTrips(all_trips, weekday_trips) == weekday_trips

\* the computation between reading the tables and the cleanup
Compute(fd) ==
    LET svc == WeekdayServices(fd.calendar)
        trips == FilterTrips(fd.trips, svc)
        stop_times == FilterStopTimes(fd.stop_times, trips)
        merged == FilterWindow(ParseTimes(Merge(trips, stop_times)))
        headways == ComputeHeadways(merged)
        buckets == ComputeBuckets(headways)
        out == RouteLoop(fd.routes, ShapeTrips(fd.trips, trips), fd.shapes, buckets,
                         Len(fd.routes))
    IN  [headways |-> headways, buckets |-> buckets,
         frequencies |-> out.freq_counts, routes |-> out.route_shapes]

\* "for f in os.listdir(temp_dir): os.remove(...)" then os.rmdir: os.remove
\* raises on an extracted sub-directory
CleanupRaises(fd) == fd.hasSubdir

\* the call ended normally or in the cleanup, after Compute
AfterCompute(fd, metadata) ==
    LET c == Compute(fd)
    IN  IF CleanupRaises(fd)
        THEN [Raised("CleanupError", "left", metadata) EXCEPT
                 !.headways = c.headways, !.buckets = c.buckets]
        ELSE [outcome |-> "ok", missing |-> <<>>, scratch |-> "removed",
              metadata |-> metadata, headways |-> c.headways, buckets |-> c.buckets,
              frequencies |-> c.frequencies, routes |-> c.routes]

\* validate_gtfs_zip: the error it raises, or "ok"
validate_gtfs_zip(fd) ==
    LET missing == REQUIRED_GTFS_FILES \ fd.names
    IN  IF fd.tooLarge THEN [error |-> "TooLarge", missing |-> <<>>]
        ELSE IF missing # {}
        THEN [error |-> "MissingRequiredFiles", missing |-> Sorted(missing)]
        ELSE [error |-> "ok", missing |-> <<>>]

parse_gtfs_zip(fd, day) ==
    LET v == validate_gtfs_zip(fd)
        metadata == load_feed_metadata(fd)
    IN  IF v.error # "ok"
        THEN [Raised(v.error, "none", EmptyDict) EXCEPT !.missing = v.missing]
        ELSE IF Expired(metadata, day) THEN Raised("FeedExpired", "left", metadata)
        ELSE IF ~fd.readable THEN Raised("ReadError", "left", metadata)
        ELSE AfterCompute(fd, metadata)

\* process_gtfs; order is the iteration order of the set "missing"
process_gtfs(fd, order) ==
    LET missing == REQUIRED_FILES \ fd.names
    IN  IF missing # {}
        THEN [Raised("MissingRequiredFiles", "left", EmptyDict) EXCEPT !.missing = order]
        ELSE IF ~fd.readable THEN Raised("ReadError", "left", EmptyDict)
        ELSE AfterCompute(fd, EmptyDict)

---------------------------------------------------------------------------
(* The feeds the analysis is run on. *)

Calendar ==
    << [service_id |-> 1, monday |-> 1, tuesday |-> 1, wednesday |-> 1,
        thursday |-> 1, friday |-> 1],
       [service_id |-> 2, monday |-> 1, tuesday |-> 1, wednesday |-> 1,
        thursday |-> 1, friday |-> 0],
       [service_id |-> 3, monday |-> 0, tuesday |-> 0, wednesday |-> 0,
        thursday |-> 0, friday |-> 0] >>

\* shape 1 is listed out of sequence order
Shapes ==
    << [shape_id |-> 1, shape_pt_sequence |-> 2, shape_pt_lat |-> 12, shape_pt_lon |-> 22],
       [shape_id |-> 1, shape_pt_sequence |-> 1, shape_pt_lat |-> 11, shape_pt_lon |-> 21],
       [shape_id |-> 2, shape_pt_sequence |-> 1, shape_pt_lat |-> 13, shape_pt_lon |-> 23] >>

\* trips 1 and 2 serve route 1, on a weekday service and on a service
\* without Friday; trip 3 serves route 2 on a weekday service
BaseTrips ==
    << [trip_id |-> 1, route_id |-> 1, service_id |-> 1, shape_id |-> <<1>>],
       [trip_id |-> 2, route_id |-> 1, service_id |-> 2, shape_id |-> NaN],
       [trip_id |-> 3, route_id |-> 2, service_id |-> 1, shape_id |-> <<2>>] >>

BaseStopTimes ==
    << [trip_id |-> 1, arrival_time |-> <<7, 0, 0>>],
       [trip_id |-> 1, arrival_time |-> <<7, 12, 0>>],
       [trip_id |-> 2, arrival_time |-> <<9, 0, 0>>] >>

NoFeedInfo == [parses |-> FALSE, publisher |-> "", start |-> NaN, end |-> NaN]

BaseFeed ==
    [names |-> REQUIRED_GTFS_FILES, tooLarge |-> FALSE, hasSubdir |-> FALSE,
     readable |-> TRUE, feed_info |-> NoFeedInfo,
     routes |-> <<1, 2>>, trips |-> BaseTrips, stop_times |-> BaseStopTimes,
     calendar |-> Calendar, shapes |-> Shapes]

Today0 == <<2024, 6, 15>>

\* feed_start_date cells: missing, a date, a day that does not exist
StartCells == {NaN, <<20240101>>, <<20240230>>}

\* feed_end_date cells: missing, last year, yesterday, today, tomorrow,
\* a day that does not exist
EndCells == {NaN, <<20231231>>, <<20240614>>, <<20240615>>, <<20240616>>, <<20240631>>}

FeedInfos ==
    {NoFeedInfo} \cup
    {[parses |-> TRUE, publisher |-> "agency", start |-> s, end |-> e] :
        s \in StartCells, e \in EndCells}

\* archives: which files they hold, their size, a sub-directory, whether the
\* tables parse, and the feed metadata
ArchiveFeeds ==
    {[BaseFeed EXCEPT !.names = n, !.tooLarge = big, !.hasSubdir = sub, !.readable = rd] :
        n \in SUBSET REQUIRED_GTFS_FILES,
        big \in BOOLEAN, sub \in BOOLEAN, rd \in BOOLEAN}
    \cup
    {[BaseFeed EXCEPT !.names = n \cup {"feed_info.txt"}, !.tooLarge = big,
                      !.hasSubdir = sub, !.readable = rd, !.feed_info = fi] :
        n \in SUBSET REQUIRED_GTFS_FILES,
        big \in BOOLEAN, sub \in BOOLEAN, rd \in BOOLEAN, fi \in FeedInfos}

\* arrival_time cells: missing, before the window, its two ends, inside,
\* after it (past midnight)
ArrivalCells == {NaN, <<6, 0, 0>>, <<7, 0, 0>>, <<7, 10, 0>>, <<22, 0, 0>>, <<25, 30, 0>>}

StopTimeRows ==
    {[trip_id |-> t, arrival_time |-> a] : t \in 1 .. Len(BaseTrips), a \in ArrivalCells}

\* schedules: every stop_times relation of up to MaxEvents rows
IsScheduleFeed(fd) ==
    \E n \in 0 .. MaxEvents : \E st \in [1 .. n -> StopTimeRows] :
        fd = [BaseFeed EXCEPT !.stop_times = st]

\* two events of one weekday trip, a given number of half minutes apart
FromSeconds(n) == <<n \div 3600, (n \div 60) % 60, n % 60>>

GapFeeds ==
    {[BaseFeed EXCEPT !.stop_times =
        << [trip_id |-> 1, arrival_time |-> <<7, 0, 0>>],
           [trip_id |-> 1, arrival_time |-> FromSeconds(to_timedelta(<<7, 0, 0>>) + 30 * g)] >>] :
        g \in 0 .. MaxGap}

\* networks: every routes relation without repeated identifiers and every
\* trips relation of up to MaxTrips rows; the trip_id is the row number
RouteIds == {1, 2}

TripRows ==
    {[route_id |-> r, service_id |-> sv, shape_id |-> sh] :
        r \in RouteIds, sv \in {1, 3}, sh \in {NaN, <<1>>, <<2>>}}

WithTripIds(rows) ==
    [i \in DOMAIN rows |->
        [trip_id |-> i, route_id |-> rows[i].route_id,
         service_id |-> rows[i].service_id, shape_id |-> rows[i].shape_id]]

RouteRelations == {q \in SeqsUpTo(RouteIds, Cardinality(RouteIds)) : Injective(q)}

IsNetworkFeed(fd) ==
    \E rs \in RouteRelations : \E n \in 0 .. MaxTrips : \E ts \in [1 .. n -> TripRows] :
        fd = [BaseFeed EXCEPT !.routes = rs, !.trips = WithTripIds(ts)]

---------------------------------------------------------------------------
(* One analysis call. *)

\* the filesystem after a call that ended as r
TmpDirsAfter(dirs, r) == IF r.scratch = "left" THEN dirs \cup {Cardinality(dirs) + 1} ELSE dirs

Init ==
    /\ \/ feed \in ArchiveFeeds
       \/ feed \in GapFeeds
       \/ IsScheduleFeed(feed)
       \/ IsNetworkFeed(feed)
    /\ today = Today0
    /\ pc = "start"
    /\ impl = "none"
    /\ tmpdirs = {}
    /\ run = NoRun
    /\ now = 0
    /\ advances = 0
    /\ cache = EmptyDict
    /\ log = NoLog

\* parse_gtfs_zip(zip_path)
ParseGtfsZip ==
    /\ pc = "start"
    /\ run' = parse_gtfs_zip(feed, today)
    /\ tmpdirs' = TmpDirsAfter(tmpdirs, run')
    /\ impl' = "parse_gtfs_zip"
    /\ pc' = "done"
    /\ UNCHANGED <<feed, today, now, advances, cache, log>>

\* process_gtfs(path)
ProcessGtfs ==
    /\ pc = "start"
    /\ \E order \in Orderings(REQUIRED_FILES \ feed.names) :
          run' = process_gtfs(feed, order)
    /\ tmpdirs' = TmpDirsAfter(tmpdirs, run')
    /\ impl' = "process_gtfs"
    /\ pc' = "done"
    /\ UNCHANGED <<feed, today, now, advances, cache, log>>

Next == ParseGtfsZip \/ ProcessGtfs

Spec == Init /\ [][Next]_vars

---------------------------------------------------------------------------
(* compare_gtfs_task and the cache.  The clock counts ticks, TicksPerDay   *)
(* to the day; a file's content stands for its sha256.                     *)

\* (datetime.now() - entry['timestamp']).days
Days(delta) == delta \div TicksPerDay

\* cache.get(sha) when there is no entry
NoEntry == [timestamp |-> -1, data |-> [feed_info |-> EmptyDict,
                                        frequencies |-> EmptyDict, routes |-> <<>>]]

\* entry and (now - entry['timestamp']).days <= CACHE_MAX_AGE_DAYS
\* (Fresh_strict: the fault of "<")
Fresh_strict(entry, t) ==
    entry # NoEntry /\ Days(t - entry.timestamp) < CACHE_MAX_AGE_DAYS

Fresh(entry, t) ==
    entry # NoEntry /\ Days(t - entry.timestamp) <= CACHE_MAX_AGE_DAYS

\* the uploads: a sound feed, an archive without shapes.txt, and a sound
\* feed whose end date is CACHE_MAX_AGE_DAYS days after the first day
Contents == {"good", "broken", "expiring"}

FeedOf(c) ==
    CASE c = "good" -> BaseFeed
      [] c = "broken" -> [BaseFeed EXCEPT !.names = REQUIRED_GTFS_FILES \ {"shapes.txt"}]
      [] c = "expiring" ->
            [BaseFeed EXCEPT !.names = REQUIRED_GTFS_FILES \cup {"feed_info.txt"},
                             !.feed_info = [parses |-> TRUE, publisher |-> "agency",
                                            start |-> NaN, end |-> <<20240715>>]]

\* data = {'feed_info': meta, 'frequencies': freqs, 'routes': shapes}
DataOf(r) == [feed_info |-> r.metadata, frequencies |-> r.frequencies, routes |-> r.routes]

\* cache[sha] = {'timestamp': now, 'data': data}, reached only when
\* parse_gtfs_zip returned
Store(c, r, t, d) ==
    IF r.outcome = "ok" THEN Put(c, r.content, [timestamp |-> t, data |-> d]) ELSE c

\* one turn of "for info in files_info": st is [cache, dirs, steps, raised]
TaskStep(st, c, t, day) ==
    LET entry == Get(st.cache, c, NoEntry)
    IN  IF st.raised THEN st
        ELSE IF Fresh(entry, t)
        THEN [st EXCEPT !.steps = Append(@,
                 [content |-> c, had |-> entry, hit |-> TRUE, analysed |-> FALSE,
                  outcome |-> "cached", result |-> entry.data, has |-> entry])]
        ELSE LET r == parse_gtfs_zip(FeedOf(c), day)
                 after == Store(st.cache, [content |-> c, outcome |-> r.outcome], t, DataOf(r))
             IN  [cache |-> after,
                  dirs |-> TmpDirsAfter(st.dirs, r),
                  steps |-> Append(st.steps,
                     [content |-> c, had |-> entry, hit |-> FALSE, analysed |-> TRUE,
                      outcome |-> r.outcome, result |-> DataOf(r),
                      has |-> Get(after, c, NoEntry)]),
                  raised |-> r.outcome # "ok"]

RECURSIVE TaskLoop(_, _, _, _)
TaskLoop(st, files_info, t, day) ==
    IF files_info = <<>> THEN st
    ELSE TaskLoop(TaskStep(st, Head(files_info), t, day), Tail(files_info), t, day)

InitCache ==
    /\ feed = BaseFeed
    /\ today = Today0
    /\ pc = "done"
    /\ impl = "none"
    /\ tmpdirs = {}
    /\ run = NoRun
    /\ now = 0
    /\ advances = 0
    /\ cache = EmptyDict
    /\ log = NoLog

\* compare_gtfs_task(files_info), on the two files the endpoint hands over
CompareGtfsTask ==
    /\ Cardinality(tmpdirs) < MaxTmpDirs
    /\ \E files_info \in Contents \X Contents :
          LET st == TaskLoop([cache |-> cache, dirs |-> tmpdirs, steps |-> <<>>,
                              raised |-> FALSE], files_info, now, today)
          IN  /\ cache' = st.cache
              /\ tmpdirs' = st.dirs
              /\ log' = [at |-> now, before |-> cache, steps |-> st.steps,
                         raised |-> st.raised]
    /\ UNCHANGED <<feed, today, pc, impl, run, now, advances>>

\* time passes between two task runs
AdvanceClock ==
    /\ advances < MaxAdvances
    /\ \E step \in ClockSteps :
          /\ now' = now + step
          /\ today' = AddDays(Today0, Days(now + step))
    /\ advances' = advances + 1
    /\ UNCHANGED <<feed, pc, impl, tmpdirs, run, cache, log>>

NextCache == CompareGtfsTask \/ AdvanceClock

SpecCache == InitCache /\ [][NextCache]_vars


---------------------------------------------------------------------------
(* What the claims speak of, stated from the feed alone. *)

Done == pc = "done"

Returned == pc = "done" /\ run.outcome = "ok"

BucketLabels == {"10", "15", "20", "30", "60", "worse", "unknown"}

\* a service with all of Monday to Friday set to 1
AllWeekday(fd, sid) ==
    \E i \in DOMAIN fd.calendar :
        /\ fd.calendar[i].service_id = sid
        /\ <<fd.calendar[i].monday, fd.calendar[i].tuesday, fd.calendar[i].wednesday,
             fd.calendar[i].thursday, fd.calendar[i].friday>> = <<1, 1, 1, 1, 1>>

Seconds(t) == 3600 * t[1] + 60 * t[2] + t[3]

\* stop event e of fd qualifies for route rid
Qualifies(fd, e, rid) ==
    /\ \E j \in DOMAIN fd.trips :
            /\ fd.trips[j].trip_id = fd.stop_times[e].trip_id
            /\ fd.trips[j].route_id = rid
            /\ AllWeekday(fd, fd.trips[j].service_id)
    /\ fd.stop_times[e].arrival_time # <<>>
    /\ Seconds(fd.stop_times[e].arrival_time) >= 7 * 3600
    /\ Seconds(fd.stop_times[e].arrival_time) <= 22 * 3600

QualifyingEvents(fd, rid) == {e \in DOMAIN fd.stop_times : Qualifies(fd, e, rid)}

QualifyingTimes(fd, rid) ==
    {Seconds(fd.stop_times[e].arrival_time) : e \in QualifyingEvents(fd, rid)}

\* the largest gap between neighbours of the qualifying times in ascending
\* order; events at one and the same time are 0 apart
LargestGap(fd, rid) ==
    LET T == QualifyingTimes(fd, rid)
        gaps == {b - a : <<a, b>> \in {p \in T \X T :
                    p[1] < p[2] /\ ~\E c \in T : p[1] < c /\ c < p[2]}}
    IN  IF gaps = {} THEN 0 ELSE CHOOSE g \in gaps : \A x \in gaps : x <= g

AllRouteIds(fd) == Range(fd.routes) \cup {fd.trips[j].route_id : j \in DOMAIN fd.trips}

\* the trips of route rid that carry a shape reference: all of them, or
\* those of all-weekday services only
ShapeTripsOf(fd, rid, weekdayOnly) ==
    {j \in DOMAIN fd.trips :
        /\ fd.trips[j].route_id = rid
        /\ fd.trips[j].shape_id # <<>>
        /\ weekdayOnly => AllWeekday(fd, fd.trips[j].service_id)}

FirstOf(S) == CHOOSE j \in S : \A k \in S : j <= k

\* the points of shape sid in the order of their sequence index
PointsInOrder(fd, sid) ==
    LET rows == {i \in DOMAIN fd.shapes : fd.shapes[i].shape_id = sid}
        rank(i) == Cardinality({k \in rows :
                      fd.shapes[k].shape_pt_sequence < fd.shapes[i].shape_pt_sequence})
    IN  [n \in 1 .. Cardinality(rows) |->
            LET i == CHOOSE k \in rows : rank(k) = n - 1
            IN  <<fd.shapes[i].shape_pt_lat, fd.shapes[i].shape_pt_lon>>]

\* the shape the record of route rid is to carry
ExpectedShape(fd, rid, weekdayOnly) ==
    PointsInOrder(fd, fd.trips[FirstOf(ShapeTripsOf(fd, rid, weekdayOnly))].shape_id[1])

RecordsOf(rid) == {k \in DOMAIN run.routes : run.routes[k].route_id = rid}

DateNumber(d) == 10000 * d[1] + 100 * d[2] + d[3]

---------------------------------------------------------------------------
(* C1: when the analysis returns, the values of frequencies sum to the     *)
(* number of rows of routes, and every key is one of the seven buckets.    *)
C1_CountsSumToRoutes ==
    Returned =>
        /\ SumFn(run.frequencies) = Len(feed.routes)
        /\ DOMAIN run.frequencies \subseteq BucketLabels
        /\ \A b \in DOMAIN run.frequencies : run.frequencies[b] >= 1

\* two routes were counted, one of them as unknown and one in a numeric bucket
C1_Witness ==
    /\ Returned
    /\ Len(feed.routes) = 2
    /\ DOMAIN run.frequencies = {"unknown", "10"}

(* C2: once an analysis call has ended, returned or raised, no scratch     *)
(* directory is left on the filesystem.                                    *)
C2_NoScratchLeft == Done => tmpdirs = {}

(* C3: when required files are absent from an archive within the size     *)
(* bound, the call fails with MissingRequiredFiles and the message lists   *)
(* every missing file, in ascending order.                                 *)
C3_MissingListedSorted ==
    (Done /\ ~feed.tooLarge /\ REQUIRED_GTFS_FILES \ feed.names # {}) =>
        /\ run.outcome = "MissingRequiredFiles"
        /\ Range(run.missing) = REQUIRED_GTFS_FILES \ feed.names
        /\ Len(run.missing) = Cardinality(REQUIRED_GTFS_FILES \ feed.names)
        /\ \A i, j \in DOMAIN run.missing :
              i < j => StrLess(run.missing[i], run.missing[j])

\* the same of parse_gtfs_zip alone
C3_ParseGtfsZipSorted == impl = "parse_gtfs_zip" => C3_MissingListedSorted

(* C4: every headway has a bucket, chosen by inclusive upper bounds:       *)
(* up to 10 minutes "10", up to 15 "15", up to 20 "20", up to 30 "30",     *)
(* up to 60 "60", above 60 "worse"; the route's record carries it.         *)
C4_Classifier ==
    Done =>
        /\ DOMAIN run.buckets = DOMAIN run.headways
        /\ \A rid \in DOMAIN run.headways :
              LET h == run.headways[rid]
                  b == run.buckets[rid]
              IN  /\ (h <= 600) <=> (b = "10")
                  /\ (600 < h /\ h <= 900) <=> (b = "15")
                  /\ (900 < h /\ h <= 1200) <=> (b = "20")
                  /\ (1200 < h /\ h <= 1800) <=> (b = "30")
                  /\ (1800 < h /\ h <= 3600) <=> (b = "60")
                  /\ (h > 3600) <=> (b = "worse")
                  /\ \A k \in RecordsOf(rid) : run.routes[k].frequency_bucket = b

\* a headway of exactly ten minutes was put in bucket "10"
C4_Witness ==
    /\ Returned
    /\ 1 \in DOMAIN run.headways
    /\ run.headways[1] = 600
    /\ run.buckets[1] = "10"
    /\ \E k \in DOMAIN run.routes :
          run.routes[k].route_id = 1 /\ run.routes[k].frequency_bucket = "10"

\* the other two cases the claim names: 12 minutes and 61 minutes
C4_TwelveMinutes ==
    Returned /\ 1 \in DOMAIN run.headways /\ run.headways[1] = 720 /\ run.buckets[1] = "15"

C4_SixtyOneMinutes ==
    Returned /\ 1 \in DOMAIN run.headways /\ run.headways[1] = 3660
             /\ run.buckets[1] = "worse"

(* C5: a route with fewer than two qualifying stop events has no headway   *)
(* and is given the bucket "unknown": in its record and in the counts.     *)
C5_FewEventsUnknown ==
    Returned =>
        /\ \A i \in DOMAIN feed.routes :
              Cardinality(QualifyingEvents(feed, feed.routes[i])) < 2 =>
                 /\ feed.routes[i] \notin DOMAIN run.buckets
                 /\ \A k \in RecordsOf(feed.routes[i]) :
                       run.routes[k].frequency_bucket = "unknown"
        /\ Get(run.frequencies, "unknown", 0) =
              Cardinality({i \in DOMAIN feed.routes :
                  Cardinality(QualifyingEvents(feed, feed.routes[i])) < 2})

\* route 1 has one qualifying event, its other events are at 06:00, and its
\* record says unknown
C5_Witness ==
    /\ Returned
    /\ Cardinality(QualifyingEvents(feed, 1)) = 1
    /\ \E e \in DOMAIN feed.stop_times :
          feed.stop_times[e].trip_id = 1 /\ feed.stop_times[e].arrival_time = <<6, 0, 0>>
    /\ \E k \in DOMAIN run.routes :
          run.routes[k].route_id = 1 /\ run.routes[k].frequency_bucket = "unknown"

C6_WitnessIgnored ==
    /\ Returned
    /\ Len(feed.stop_times) = 3
    /\ \E e \in DOMAIN feed.stop_times :
          feed.stop_times[e].trip_id = 1 /\ feed.stop_times[e].arrival_time = <<>>
    /\ Cardinality(QualifyingEvents(feed, 1)) = 2
    /\ run.headways[1] = 600

C9_WitnessToday ==
    /\ Returned /\ impl = "parse_gtfs_zip"
    /\ "feed_end_date" \in DOMAIN run.metadata
    /\ run.metadata["feed_end_date"] = today

(* C10: in a run of compare_gtfs_task a file is answered from the cache    *)
(* exactly when its content has an entry whose age in whole days is at     *)
(* most 30, and is analysed otherwise; an entry is written only by a       *)
(* successful analysis of its content, with the time of the run; a failed  *)
(* analysis leaves the cache as it was.                                    *)
EntryAfter(c, n) ==
    LET mine == {i \in 1 .. n : log.steps[i].content = c}
    IN  IF mine = {} THEN Get(log.before, c, NoEntry)
        ELSE log.steps[CHOOSE i \in mine : \A k \in mine : k <= i].has

C10_CacheDiscipline ==
    /\ \A i \in DOMAIN log.steps :
          LET s == log.steps[i]
              old == EntryAfter(s.content, i - 1)
              fresh == /\ old.timestamp >= 0
                       /\ log.at - old.timestamp < (CACHE_MAX_AGE_DAYS + 1) * TicksPerDay
          IN  /\ s.had = old
              /\ s.hit <=> fresh
              /\ s.hit => ~s.analysed /\ s.result = old.data /\ s.has = old
              /\ ~s.hit => s.analysed
              /\ (s.analysed /\ s.outcome = "ok") =>
                    s.has = [timestamp |-> log.at, data |-> s.result]
              /\ (s.analysed /\ s.outcome # "ok") => s.has = old /\ i = Len(log.steps)
              /\ s.has # old => s.analysed /\ s.outcome = "ok"
    /\ \A c \in Contents : Get(cache, c, NoEntry) = EntryAfter(c, Len(log.steps))
    /\ \A c \in DOMAIN cache : c \in Contents /\ cache[c].timestamp <= now

\* an entry older than 30 days was passed over and replaced by a new one
C10_Witness ==
    /\ Len(log.steps) >= 1
    /\ log.steps[1].had # NoEntry
    /\ log.at - log.steps[1].had.timestamp = (CACHE_MAX_AGE_DAYS + 1) * TicksPerDay
    /\ ~log.steps[1].hit
    /\ log.steps[1].outcome = "ok"
    /\ cache[log.steps[1].content].timestamp = log.at

\* an entry of 30 days and a half was returned without analysis
C10_WitnessStillFresh ==
    /\ Len(log.steps) >= 1
    /\ log.steps[1].hit
    /\ log.at - log.steps[1].had.timestamp = CACHE_MAX_AGE_DAYS * TicksPerDay + 1

\* the analysis of a content whose entry had grown old failed, and the old
\* entry is still there
C10_WitnessFailedKeepsEntry ==
    /\ Len(log.steps) >= 1
    /\ log.steps[1].had # NoEntry
    /\ log.steps[1].outcome = "FeedExpired"
    /\ cache[log.steps[1].content] = log.steps[1].had

====
